---- MODULE Spec2Model ----
(***************************************************************************)
(* A model of amulet/charm.py: the Builder (a charm synthesised from a     *)
(* template, relation declarations, hook wiring, metadata checkpoints),    *)
(* charm resolution (get_charm, LocalCharm, LaunchpadCharm) and relation   *)
(* lookup (get_relation).                                                  *)
(*                                                                         *)
(* Paths, references and file names are strings; Python dict objects live  *)
(* in `heap` and are referred to by their index, so that two names for one *)
(* dict share its later changes as they do in Python.                      *)
(***************************************************************************)
EXTENDS Integers, Sequences, FiniteSets, TLC

VARIABLES
    fs,        \* the filesystem: path -> directory
    heap,      \* Python dict objects (option maps), by reference
    pc,        \* the Builder: "new", "ready" (constructed), "failed" (__init__ raised)
    metadata,  \* Builder.metadata
    hook,      \* Builder.hook
    charm,     \* Builder.charm, the path of the working tree
    error,     \* the exception the last call raised, or None
    ndecl,     \* how many declarations the caller has made
    env,       \* os.environ: JUJU_REPOSITORY, "" when unset
    objs,      \* the charm models constructed so far
    cache,     \* the caller's cache: reference -> index of a model in objs
    lookups,   \* the references handed to the registry (charmworldlib), in order
    result,    \* what the last get_relation returned
    ncall,     \* how many get_charm / get_relation calls the caller has made
    ndel,      \* how many times a model's __del__ has run
    last       \* the last call, its arguments and the state it started from

builder_vars == <<heap, pc, metadata, hook, charm, ndecl>>
resolve_vars == <<env, objs, cache, lookups, result, ncall, ndel>>
vars == <<fs, error, last, builder_vars, resolve_vars>>

None == "None"

----------------------------------------------------------------------------
(* Bounds and input sets *)

MaxDecl == 2
MaxCall == 2
MaxDel  == 2

CharmNames == {"sentry"}
Relations  == {"db", "web"}
Interfaces == {"http", "mysql"}
HookNames  == {"hooks.py", ""}
RelTypes   == {"requires", "provides", "peers"}

\* every string used as a mapping key, in the order yaml.safe_dump writes keys
SortedKeys ==
    << "db", "description", "interface", "juju-info", "maintainer", "name",
       "optional", "peers", "provides", "requires", "scope", "subordinate",
       "summary", "web" >>

----------------------------------------------------------------------------
(* Strings and paths *)

startswith(s, p) == Len(s) >= Len(p) /\ SubSeq(s, 1, Len(p)) = p

endswith(s, p) == Len(s) >= Len(p) /\ SubSeq(s, Len(s) - Len(p) + 1, Len(s)) = p

\* os.path.join of two components
path_join(a, b) ==
    IF startswith(b, "/") THEN b
    ELSE IF a = "" \/ endswith(a, "/") THEN a \o b
    ELSE a \o "/" \o b

----------------------------------------------------------------------------
(* Directories.  A directory holds its top-level files (name -> content),  *)
(* its hooks/ subdirectory (name -> entry) and its checkpoint log.         *)

RegularFile == [kind |-> "file", target |-> "", mode |-> "0644"]
SymLink(t)  == [kind |-> "symlink", target |-> t, mode |-> "0777"]

NoBzr == [init |-> FALSE, added |-> {}, log |-> <<>>, head |-> <<>>]

EmptyDir == [files |-> <<>>, hooks |-> <<>>, bzr |-> NoBzr]

\* os.path.exists of hooks/<f>: a symbolic link counts only if its target does
path_exists(hooks, f) ==
    /\ f \in DOMAIN hooks
    /\ \/ hooks[f].kind = "file"
       \/ /\ hooks[f].target \in DOMAIN hooks
          /\ hooks[hooks[f].target].kind = "file"

\* os.chmod(hooks/<f>, 0o755): follows a symbolic link; raises when nothing is there.
\* The empty name is the hooks/ directory itself.
chmod(hooks, f) ==
    IF f = "" THEN [hooks |-> hooks, err |-> None]
    ELSE IF ~path_exists(hooks, f) THEN [hooks |-> hooks, err |-> "OSError"]
    ELSE LET t == IF hooks[f].kind = "symlink" THEN hooks[f].target ELSE f
         IN  [hooks |-> [hooks EXCEPT ![t].mode = "0755"], err |-> None]

\* for h in glob(hooks/*): os.chmod(h, 0o755)
RECURSIVE chmod_all(_, _)
chmod_all(hooks, todo) ==
    IF todo = {} THEN [hooks |-> hooks, err |-> None]
    ELSE LET f == CHOOSE x \in todo : TRUE
             r == chmod(hooks, f)
         IN  IF r.err # None THEN r ELSE chmod_all(r.hooks, todo \ {f})

----------------------------------------------------------------------------
(* The checkpoint log (helpers.setup_bzr, helpers.run_bzr) *)

setup_bzr(dir) ==
    [dir EXCEPT !.bzr = [init |-> TRUE, added |-> {}, log |-> <<>>, head |-> <<>>]]

\* run_bzr(["add", "."], dir)
bzr_add(dir) ==
    [dir EXCEPT !.bzr.added = DOMAIN dir.files
                              \cup { path_join("hooks", f) : f \in DOMAIN dir.hooks }]

\* what a commit records: the tree as it is, and which of its files are
\* under version control
tracked_files(dir) == [files |-> dir.files, hooks |-> dir.hooks, added |-> dir.bzr.added]

\* run_bzr(["commit", "--unchanged", "-m", msg], dir): a revision is recorded
\* whether or not anything changed; head is the tree as of that revision
bzr_commit(dir, msg) ==
    [dir EXCEPT !.bzr.log = Append(@, msg), !.bzr.head = tracked_files(dir)]

----------------------------------------------------------------------------
(* The document codec: yaml.safe_dump writes a mapping as its keys in      *)
(* sorted order, each with its value; yaml.safe_load reads it back.        *)

KeysOf(m) == SelectSeq(SortedKeys, LAMBDA k : k \in DOMAIN m)

\* a mapping of scalars
dump_scalars(m) == [i \in 1..Len(KeysOf(m)) |-> <<KeysOf(m)[i], m[KeysOf(m)[i]]>>]

\* a relation table: name -> declaration (the dict the entry refers to)
dump_table(t, h) ==
    [i \in 1..Len(KeysOf(t)) |-> <<KeysOf(t)[i], dump_scalars(h[t[KeysOf(t)[i]]])>>]

safe_dump(md, h) ==
    [i \in 1..Len(KeysOf(md)) |->
        LET k == KeysOf(md)[i]
        IN  <<k, IF k \in RelTypes THEN dump_table(md[k], h) ELSE md[k]>>]

load_map(text) ==
    [k \in {text[i][1] : i \in 1..Len(text)} |->
        LET i == CHOOSE j \in 1..Len(text) : text[j][1] = k IN text[i][2]]

\* the decoded document: relation tables hold their declarations by value
safe_load(text) ==
    LET top == load_map(text)
    IN  [k \in DOMAIN top |->
            IF k \in RelTypes
            THEN LET t == load_map(top[k])
                 IN  [n \in DOMAIN t |-> load_map(t[n])]
            ELSE top[k]]

----------------------------------------------------------------------------
(* Python dict objects *)

\* d[k] = v
set_item(d, k, v) == [x \in DOMAIN d \cup {k} |-> IF x = k THEN v ELSE d[x]]

\* a reference to a dict is its index in heap; 0 is Python's None
truthy(h, ref) == ref # 0 /\ DOMAIN h[ref] # {}

\* "if not opts: opts = {}": a new dict unless a non-empty one was passed
default_opts(h, opts) ==
    IF truthy(h, opts) THEN [heap |-> h, ref |-> opts]
    ELSE [heap |-> Append(h, <<>>), ref |-> Len(h) + 1]

----------------------------------------------------------------------------
(* Builder.  The operations act on a world w: the filesystem, the heap and *)
(* the Builder's attributes, with the exception raised (or None).          *)

Events == <<"joined", "changed", "departed", "broken">>

\* '%s-relation-%s' % (relation, event)
hook_file(relation, event) == relation \o "-relation-" \o event

\* tempfile.mkdtemp(prefix=...): a new directory of a name not in use
mkdtemp(fsys, prefix) ==
    LET Digit == <<"0", "1", "2", "3", "4", "5", "6", "7", "8", "9">>
        name(i) == "/tmp/" \o prefix \o Digit[i]
        n == CHOOSE i \in 1..Len(Digit) :
                /\ name(i) \notin DOMAIN fsys
                /\ \A j \in 1..(i - 1) : name(j) \in DOMAIN fsys
    IN  name(n)

\* Builder.save
save(w, msg) == [w EXCEPT !.fs[w.charm] = bzr_commit(bzr_add(@), msg)]

\* write_metadata making the checkpoint before it writes the file
write_metadata_commit_first(w) ==
    LET saved == save(w, "Writing Metadata")
    IN  [saved EXCEPT !.fs[w.charm].files =
                         set_item(@, "metadata.yaml", safe_dump(w.metadata, w.heap))]

\* Builder.write_metadata
write_metadata(w) ==
    save([w EXCEPT !.fs[w.charm].files =
                      set_item(@, "metadata.yaml", safe_dump(w.metadata, w.heap))],
         "Writing Metadata")

\* the entry set in its table and the name taken out of the other tables
set_relation_exclusive(md, rel_type, relation, ref) ==
    LET md1 == IF rel_type \notin DOMAIN md THEN md @@ (rel_type :> <<>>) ELSE md
        md2 == [t \in DOMAIN md1 |->
                   IF t \in RelTypes /\ t # rel_type
                   THEN [n \in DOMAIN md1[t] \ {relation} |-> md1[t][n]]
                   ELSE md1[t]]
    IN  [md2 EXCEPT ![rel_type] = set_item(@, relation, ref)]

\* Builder._add_relation, the metadata table
set_relation(md, rel_type, relation, ref) ==
    LET md1 == IF rel_type \notin DOMAIN md THEN md @@ (rel_type :> <<>>) ELSE md
    IN  [md1 EXCEPT ![rel_type] = set_item(@, relation, ref)]

\* Builder._add_relation, the links to the "global hooks" file, event by event
RECURSIVE link_hooks(_, _, _, _)
link_hooks(hooks, hk, relation, i) ==
    IF i > Len(Events) THEN [hooks |-> hooks, err |-> None]
    ELSE LET f == hook_file(relation, Events[i])
         IN  IF path_exists(hooks, f) THEN link_hooks(hooks, hk, relation, i + 1)
             ELSE IF f \in DOMAIN hooks
                  THEN [hooks |-> hooks, err |-> "FileExistsError"]
                  ELSE link_hooks(set_item(hooks, f, SymLink(hk)), hk, relation, i + 1)

\* wire_hooks without the test for a file already there: each of the four
\* names is linked anew
wire_hooks_overwriting(hooks, hk, relation) ==
    LET four == {hook_file(relation, Events[i]) : i \in 1..Len(Events)}
    IN  IF hk = "" THEN [hooks |-> hooks, err |-> None]
        ELSE [hooks |-> [f \in DOMAIN hooks \cup four |->
                            IF f \in four THEN SymLink(hk) ELSE hooks[f]],
              err |-> None]

\* "if self.hook:"
wire_hooks(hooks, hk, relation) ==
    IF hk # "" THEN link_hooks(hooks, hk, relation, 1)
    ELSE [hooks |-> hooks, err |-> None]

\* _add_relation updating the declaration already there instead of replacing
\* it: the keys of the earlier declaration stay unless the new one sets them
add_relation_merging(w, rel_type, relation, ref) ==
    LET old == IF rel_type \in DOMAIN w.metadata /\ relation \in DOMAIN w.metadata[rel_type]
               THEN w.heap[w.metadata[rel_type][relation]] ELSE <<>>
        wired == wire_hooks(w.fs[w.charm].hooks, w.hook, relation)
        w1 == [w EXCEPT !.metadata = set_relation(w.metadata, rel_type, relation, ref),
                        !.heap[ref] = @ @@ old,
                        !.fs[w.charm].hooks = wired.hooks]
    IN  IF wired.err # None THEN [w1 EXCEPT !.err = wired.err]
        ELSE write_metadata(w1)

\* Builder._add_relation
add_relation(w, rel_type, relation, ref) ==
    LET wired == wire_hooks(w.fs[w.charm].hooks, w.hook, relation)
        w1 == [w EXCEPT !.metadata = set_relation(w.metadata, rel_type, relation, ref),
                        !.fs[w.charm].hooks = wired.hooks]
    IN  IF wired.err # None THEN [w1 EXCEPT !.err = wired.err]
        ELSE write_metadata(w1)

\* the interface set only on a dict the call made itself, a dict the caller
\* passed being taken as it is
with_interface_own_dict(h, opts, interface) ==
    LET a == default_opts(h, opts)
    IN  IF a.ref = opts THEN a
        ELSE [heap |-> [a.heap EXCEPT ![a.ref] = set_item(@, "interface", interface)],
              ref |-> a.ref]

\* "opts['interface'] = interface" on the dict the call goes on with
with_interface(h, opts, interface) ==
    LET a == default_opts(h, opts)
    IN  [heap |-> [a.heap EXCEPT ![a.ref] = set_item(@, "interface", interface)],
         ref |-> a.ref]

\* Builder.require
require(w, relation, interface, opts) ==
    LET a == with_interface(w.heap, opts, interface)
    IN  add_relation([w EXCEPT !.heap = a.heap], "requires", relation, a.ref)

\* Builder.provide
provide(w, relation, interface, opts) ==
    LET a == with_interface(w.heap, opts, interface)
    IN  add_relation([w EXCEPT !.heap = a.heap], "provides", relation, a.ref)

\* peer declaring into the table of provide
peer_as_provides(w, relation, interface, opts) ==
    LET a == with_interface(w.heap, opts, interface)
    IN  add_relation([w EXCEPT !.heap = a.heap], "provides", relation, a.ref)

\* Builder.peer
peer(w, relation, interface, opts) ==
    LET a == with_interface(w.heap, opts, interface)
    IN  add_relation([w EXCEPT !.heap = a.heap], "peers", relation, a.ref)

\* the metadata Builder.__init__ starts from
default_metadata(name, subordinate) ==
    [name |-> name,
     summary |-> "Generated by Amulet",
     description |-> "Generated by Amulet",
     subordinate |-> subordinate,
     maintainer |-> "Amulet Built <juju@lists.ubuntu.com>"]

\* __init__ without the juju-info declaration of a subordinate
init_tree_undeclared(w, name, subordinate) ==
    LET d == mkdtemp(w.fs, IF subordinate THEN "sentry-sub_" ELSE "sentry_")
        tree == path_join(d, name)
        copied == w.fs[w.template]
        modes == chmod_all(copied.hooks, DOMAIN copied.hooks)
        made == (d :> EmptyDir) @@ (tree :> [copied EXCEPT !.hooks = modes.hooks]) @@ w.fs
        w1 == [w EXCEPT !.fs = made, !.charm = tree]
        w2 == [w1 EXCEPT !.fs[tree] = setup_bzr(@)]
        last_mode == chmod(w2.fs[tree].hooks, w2.hook)
    IN  IF modes.err # None THEN [w1 EXCEPT !.err = modes.err]
        ELSE IF last_mode.err # None THEN [w2 EXCEPT !.err = last_mode.err]
        ELSE [w2 EXCEPT !.fs[tree].hooks = last_mode.hooks]

\* Builder.__init__ from the copy of the template on
init_tree(w, name, subordinate) ==
    LET template == w.template
        d == mkdtemp(w.fs, IF subordinate THEN "sentry-sub_" ELSE "sentry_")
        tree == path_join(d, name)
        copied == w.fs[template]
        modes == chmod_all(copied.hooks, DOMAIN copied.hooks)
        made == (d :> EmptyDir) @@ (tree :> [copied EXCEPT !.hooks = modes.hooks]) @@ w.fs
        w1 == [w EXCEPT !.fs = made, !.charm = tree]
        w2 == [w1 EXCEPT !.fs[tree] = setup_bzr(@)]
        \* {'scope': 'container'} is a new dict
        w3 == IF subordinate
              THEN require([w2 EXCEPT !.heap = Append(@, [scope |-> "container"])],
                           "juju-info", "juju-info", Len(w2.heap) + 1)
              ELSE w2
        last_mode == chmod(w3.fs[tree].hooks, w3.hook)
    IN  IF modes.err # None THEN [w1 EXCEPT !.err = modes.err]
        ELSE IF w3.err # None THEN w3
        ELSE IF last_mode.err # None THEN [w3 EXCEPT !.err = last_mode.err]
        ELSE [w3 EXCEPT !.fs[tree].hooks = last_mode.hooks]

\* __init__ looking for the template only once the temporary directory is made
Builder_init_late_check(w, name, template, subordinate, hk) ==
    LET w1 == [w EXCEPT !.metadata = default_metadata(name, subordinate),
                        !.hook = hk,
                        !.template = template]
        d == mkdtemp(w.fs, IF subordinate THEN "sentry-sub_" ELSE "sentry_")
    IN  IF template \notin DOMAIN w.fs
        THEN [w1 EXCEPT !.fs = (d :> EmptyDir) @@ w.fs, !.err = "IOError"]
        ELSE init_tree(w1, name, subordinate)

\* __init__ ending with write_metadata, declaration or not
Builder_init_persisting(w, name, template, subordinate, hk) ==
    LET w1 == [w EXCEPT !.metadata = default_metadata(name, subordinate),
                        !.hook = hk,
                        !.template = template]
        made == init_tree(w1, name, subordinate)
    IN  IF template \notin DOMAIN w.fs THEN [w1 EXCEPT !.err = "IOError"]
        ELSE IF made.err # None THEN made
        ELSE write_metadata(made)

\* Builder.__init__.  The template paths of Templates are their own realpath.
Builder_init(w, name, template, subordinate, hk) ==
    LET w1 == [w EXCEPT !.metadata = default_metadata(name, subordinate),
                        !.hook = hk,
                        !.template = template]
    IN  IF template \notin DOMAIN w.fs THEN [w1 EXCEPT !.err = "IOError"]
        ELSE init_tree(w1, name, subordinate)

----------------------------------------------------------------------------
(* Paths of the resolution side *)

Home == "/home/u"
Cwd  == "/work"

\* os.path.expanduser
expanduser(p) ==
    IF p = "~" \/ startswith(p, "~/") THEN Home \o SubSeq(p, 2, Len(p)) ELSE p

\* os.path.abspath: relative to the working directory, no trailing separator
abspath(p) ==
    LET a == IF startswith(p, "/") THEN p ELSE path_join(Cwd, p)
    IN  IF Len(a) > 1 /\ endswith(a, "/") THEN SubSeq(a, 1, Len(a) - 1) ELSE a

\* os.path.basename: what follows the last separator
basename(p) ==
    LET cuts == {i \in 1..Len(p) : SubSeq(p, i, i) = "/"}
        k == IF cuts = {} THEN 0 ELSE CHOOSE i \in cuts : \A j \in cuts : j <= i
    IN  SubSeq(p, k + 1, Len(p))

\* os.path.exists(os.path.join(path, name)) for a file at the top of a charm
file_exists(fsys, path, name) == path \in DOMAIN fsys /\ name \in DOMAIN fsys[path].files

\* os.path.exists(os.path.join(path, '.bzr'))
has_bzr(fsys, path) == path \in DOMAIN fsys /\ fsys[path].bzr.init

\* shutil.rmtree(d): d and all below it; raises when d is not there
rmtree(fsys, d) ==
    IF d \notin DOMAIN fsys THEN [fs |-> fsys, err |-> "OSError"]
    ELSE [fs |-> [p \in {q \in DOMAIN fsys : q # d /\ ~startswith(q, d \o "/")} |-> fsys[p]],
          err |-> None]

----------------------------------------------------------------------------
(* Charm models.  The operations act on a world rw: the filesystem, the    *)
(* models constructed, the registry lookups made, with the exception       *)
(* raised (or None) and the index of the model returned.                   *)

\* the registry behind charmworldlib's Charm: reference -> relations
Registry ==
    ("cs:wordpress" :> [provides |-> [web |-> [interface |-> "http"]],
                        requires |-> [db |-> [interface |-> "mysql"]]])
    @@ ("wordpress" :> [provides |-> [web |-> [interface |-> "http"]]])

\* the branches bzr can read: file -> contents
Branches ==
    ("lp:here/metadata.yaml" :>
        << <<"name", "here">>,
           <<"provides", << <<"db", << <<"interface", "http">> >> >> >> >>,
           <<"requires", << <<"db", << <<"interface", "mysql">> >> >> >> >> >>)

\* a model: its class, its attributes, and (kept for the record, not an
\* attribute) the directory its construction made with mkdtemp, or None
new_obj(rw, o) == [rw EXCEPT !.objs = Append(@, o), !.ret = Len(rw.objs) + 1]

\* charmworldlib.charm.Charm(reference)
Charm(rw, ref) ==
    LET rw1 == [rw EXCEPT !.lookups = Append(@, ref)]
    IN  IF ref \in DOMAIN Registry
        THEN new_obj(rw1, [cls |-> "Charm", staging |-> None,
                           attrs |-> ("relations" :> Registry[ref])])
        ELSE [rw1 EXCEPT !.err = "CharmNotFound"]

rel_keys == {"provides", "requires"}

\* _parse: the document's keys in their order; each becomes an attribute, the
\* relation tables also go into self.relations
RECURSIVE parse(_, _, _)
parse(attrs, text, i) ==
    IF i > Len(text) THEN attrs
    ELSE LET key == text[i][1]
             val == safe_load(text)[key]
             a1 == IF key \in rel_keys
                   THEN [attrs EXCEPT !["relations"] = set_item(@, key, val)]
                   ELSE attrs
         IN  parse(set_item(a1, key, val), text, i + 1)

\* _make_temp_copy setting up the checkpoint log in the directory it was given
make_temp_copy_in_place(fsys, path) ==
    LET d == mkdtemp(fsys, "charm")
        tracked == bzr_commit(bzr_add(setup_bzr(fsys[path])), "Copied from " \o path)
    IN  [fs |-> (d :> EmptyDir) @@ [fsys EXCEPT ![path] = tracked],
         temp_dir |-> d,
         path |-> path]

\* LocalCharm._make_temp_copy
make_temp_copy(fsys, path) ==
    LET d == mkdtemp(fsys, "charm")
        temp_charm_dir == path_join(d, basename(path))
        copy == bzr_commit(bzr_add(setup_bzr(fsys[path])), "Copied from " \o path)
    IN  [fs |-> (d :> EmptyDir) @@ (temp_charm_dir :> copy) @@ fsys,
         temp_dir |-> d,
         path |-> temp_charm_dir]

\* __init__ staging the copy before it looks for the metadata document
LocalCharm_init_stage_first(rw, given) ==
    LET path == abspath(expanduser(given))
        staged == path \in DOMAIN rw.fs /\ ~has_bzr(rw.fs, path)
        fs1 == IF staged THEN make_temp_copy(rw.fs, path).fs ELSE rw.fs
    IN  IF ~file_exists(rw.fs, path, "metadata.yaml")
        THEN [rw EXCEPT !.fs = fs1, !.err = "Charm not found"]
        ELSE new_obj([rw EXCEPT !.fs = fs1],
                     [cls |-> "LocalCharm",
                      staging |-> IF staged THEN make_temp_copy(rw.fs, path).temp_dir
                                  ELSE None,
                      attrs |-> ("relations" :> <<>>)
                                @@ ("code_source" :> [location |-> path])])

\* LocalCharm.__init__
LocalCharm_init(rw, given) ==
    LET path == abspath(expanduser(given))
    IN  IF ~file_exists(rw.fs, path, "metadata.yaml")
        THEN [rw EXCEPT !.err = "Charm not found"]
        ELSE LET staged == ~has_bzr(rw.fs, path)
                 cp == make_temp_copy(rw.fs, path)
                 fs1 == IF staged THEN cp.fs ELSE rw.fs
                 loc == IF staged THEN cp.path ELSE path
                 text == fs1[loc].files["metadata.yaml"]
                 a0 == IF staged THEN ("temp_dir" :> cp.temp_dir) ELSE <<>>
                 a1 == ("url" :> None) @@ ("subordinate" :> FALSE)
                       @@ ("relations" :> <<>>) @@ ("provides" :> <<>>)
                       @@ ("requires" :> <<>>)
                       @@ ("code_source" :> [location |-> loc])
                       @@ ("source" :> [location |-> loc])
                       @@ ("_raw" :> safe_load(text)) @@ a0
             IN  new_obj([rw EXCEPT !.fs = fs1],
                         [cls |-> "LocalCharm",
                          staging |-> IF staged THEN cp.temp_dir ELSE None,
                          attrs |-> parse(a1, text, 1)])

\* LaunchpadCharm.__init__; _load reads the document with "bzr cat"
LaunchpadCharm_init(rw, branch) ==
    LET file == path_join(branch, "metadata.yaml")
    IN  IF file \notin DOMAIN Branches THEN [rw EXCEPT !.err = "BzrError"]
        ELSE LET text == Branches[file]
                 a1 == ("url" :> None) @@ ("subordinate" :> FALSE)
                       @@ ("code_source" :> [location |-> branch, type |-> "bzr"])
                       @@ ("source" :> [location |-> branch, type |-> "bzr"])
                       @@ ("relations" :> <<>>) @@ ("provides" :> <<>>)
                       @@ ("requires" :> <<>>)
                       @@ ("_raw" :> safe_load(text))
             IN  new_obj(rw, [cls |-> "LaunchpadCharm", staging |-> None,
                              attrs |-> parse(a1, text, 1)])

\* get_charm trying the local path before the scheme prefixes
get_charm_path_first(rw, charm_path) ==
    IF abspath(expanduser(charm_path)) \in DOMAIN rw.fs
    THEN LocalCharm_init(rw, charm_path)
    ELSE IF startswith(charm_path, "cs:") THEN Charm(rw, charm_path)
    ELSE IF startswith(charm_path, "lp:") THEN LaunchpadCharm_init(rw, charm_path)
    ELSE IF startswith(charm_path, "local:")
         THEN LocalCharm_init(rw, path_join(rw.env,
                     SubSeq(charm_path, Len("local:") + 1, Len(charm_path))))
    ELSE Charm(rw, charm_path)

\* get_charm refusing a reference that has no prefix and names no path
get_charm_strict(rw, charm_path) ==
    IF startswith(charm_path, "cs:") THEN Charm(rw, charm_path)
    ELSE IF startswith(charm_path, "lp:") THEN LaunchpadCharm_init(rw, charm_path)
    ELSE IF startswith(charm_path, "local:")
         THEN LocalCharm_init(rw, path_join(rw.env,
                     SubSeq(charm_path, Len("local:") + 1, Len(charm_path))))
    ELSE IF abspath(expanduser(charm_path)) \in DOMAIN rw.fs
         THEN LocalCharm_init(rw, charm_path)
    ELSE [rw EXCEPT !.err = "ResolutionError"]

\* get_charm
get_charm(rw, charm_path) ==
    IF startswith(charm_path, "cs:") THEN Charm(rw, charm_path)
    ELSE IF startswith(charm_path, "lp:") THEN LaunchpadCharm_init(rw, charm_path)
    ELSE IF startswith(charm_path, "local:")
         THEN LocalCharm_init(rw, path_join(rw.env,
                     SubSeq(charm_path, Len("local:") + 1, Len(charm_path))))
    ELSE IF abspath(expanduser(charm_path)) \in DOMAIN rw.fs
         THEN LocalCharm_init(rw, charm_path)
    ELSE Charm(rw, charm_path)

\* LocalCharm.__del__
LocalCharm_del(rw, i) ==
    LET attrs == rw.objs[i].attrs
    IN  IF "temp_dir" \in DOMAIN attrs /\ attrs["temp_dir"] # ""
        THEN LET r == rmtree(rw.fs, attrs["temp_dir"])
             IN  [rw EXCEPT !.fs = r.fs, !.err = r.err]
        ELSE rw

NoResult == <<>>

\* get_relation raising when no table holds the name
find_relation_strict(relations, relation) ==
    LET holding == {t \in DOMAIN relations : relation \in DOMAIN relations[t]}
    IN  IF holding = {}
        THEN {[err |-> "No relations for charm", result |-> <<>>]}
        ELSE {[err |-> None, result |-> <<t, relations[t][relation]["interface"]>>] :
                 t \in holding}

\* get_relation from "relations = c.relations" on: what it may return or raise.
\* The tables are searched in the dict's iteration order, which the language
\* leaves open here: any table holding the name may be the first.
find_relation(relations, relation) ==
    LET holding == {t \in DOMAIN relations : relation \in DOMAIN relations[t]}
    IN  IF DOMAIN relations = {}
        THEN {[err |-> "No relations for charm", result |-> NoResult]}
        ELSE IF holding = {}
        THEN {[err |-> None, result |-> <<None, None>>]}
        ELSE {[err |-> None, result |-> <<t, relations[t][relation]["interface"]>>] :
                 t \in holding}

\* get_relation keeping the model it resolved in the cache it was given
get_model_memoizing(rw, ref, passed) ==
    IF passed /\ DOMAIN rw.cache # {} /\ ref \in DOMAIN rw.cache
    THEN [rw EXCEPT !.ret = rw.cache[ref]]
    ELSE LET r == get_charm(rw, ref)
         IN  IF passed /\ r.err = None
             THEN [r EXCEPT !.cache = set_item(@, ref, r.ret)]
             ELSE r

\* get_relation up to "relations = c.relations": the model c, from the cache
\* or from get_charm.  The cache is the caller's dict rw.cache when one was
\* passed, None when not; None and an empty dict are both falsy.
get_model(rw, ref, passed) ==
    IF passed /\ DOMAIN rw.cache # {} /\ ref \in DOMAIN rw.cache
    THEN [rw EXCEPT !.ret = rw.cache[ref]]
    ELSE get_charm(rw, ref)

----------------------------------------------------------------------------
(* The initial filesystem: the templates a caller may name.  /tpl/custom   *)
(* brings a metadata document and two hooks of its own; /tpl/bare has an   *)
(* empty hooks/ directory; /tpl/missing does not exist.                    *)

TemplateDoc ==
    << <<"name", "template">>,
       <<"provides", << <<"web", << <<"interface", "http">> >> >> >> >> >>

InitFS ==
    ("/tpl/plain" :> [EmptyDir EXCEPT !.hooks = ("hooks.py" :> RegularFile)])
    @@ ("/tpl/custom" :>
            [EmptyDir EXCEPT
                !.files = ("metadata.yaml" :> TemplateDoc),
                !.hooks = ("hooks.py" :> RegularFile)
                          @@ ("db-relation-joined" :> RegularFile)
                          @@ ("juju-info-relation-changed" :> RegularFile)])
    @@ ("/tpl/bare" :> EmptyDir)

Templates == {"/tpl/plain", "/tpl/custom", "/tpl/bare", "/tpl/missing"}

\* the dicts the caller owns and may pass as options: an empty one, one with
\* an option, one with an option and an interface of its own
CallerDicts ==
    << <<>>,
       [scope |-> "container"],
       [optional |-> "true", interface |-> "stale"] >>

\* the charms a caller may name
DocFull ==
    << <<"name", "db">>,
       <<"provides", << <<"web", << <<"interface", "http">> >> >> >> >>,
       <<"requires", << <<"db", << <<"interface", "mysql">> >> >> >> >> >>

DocPeers ==
    << <<"name", "tracked">>,
       <<"peers", << <<"db", << <<"interface", "gossip">> >> >> >> >> >>

DocEmptyTable == << <<"name", "plain">>, <<"provides", <<>> >> >>

DocNoRelations == << <<"name", "db">>, <<"summary", "no relations">> >>

\* a document whose keys are named like attributes of the model
DocAttrs ==
    << <<"name", "attrs">>,
       <<"relations", <<>> >>,
       <<"source", "elsewhere">>,
       <<"temp_dir", "/charms/tracked">> >>

Tracked(dir) == bzr_commit(bzr_add(setup_bzr(dir)), "initial")

\* the working tree of Builder("sentry", "/tpl/plain").peer("web", "http")
BuiltCharm ==
    LET w == peer(Builder_init([fs |-> InitFS, heap |-> CallerDicts,
                                metadata |-> <<>>, hook |-> None, charm |-> None,
                                template |-> "", err |-> None],
                               "sentry", "/tpl/plain", FALSE, "hooks.py"),
                  "web", "http", 0)
    IN  w.fs[w.charm]

CharmFS ==
    ("/repo/db" :> [EmptyDir EXCEPT !.files = ("metadata.yaml" :> DocFull)])
    @@ ("/repo/nometa" :> EmptyDir)
    @@ ("/charms/tracked" :>
            Tracked([EmptyDir EXCEPT !.files = ("metadata.yaml" :> DocPeers)]))
    @@ ("/charms/nometa" :> EmptyDir)
    @@ ("/charms/built" :> BuiltCharm)
    @@ ("/charms/attrs" :> [EmptyDir EXCEPT !.files = ("metadata.yaml" :> DocAttrs)])
    @@ ("/home/u/plain" :>
            [EmptyDir EXCEPT !.files = ("metadata.yaml" :> DocEmptyTable)])
    @@ ("/work/lp:here" :> [EmptyDir EXCEPT !.files = ("metadata.yaml" :> DocFull)])
    @@ ("/work/db" :>
            Tracked([EmptyDir EXCEPT !.files = ("metadata.yaml" :> DocNoRelations)]))

Refs ==
    {"cs:wordpress", "lp:here", "local:db", "local:nometa", "/charms/tracked",
     "~/plain", "/charms/nometa", "/charms/built", "/charms/attrs", "wordpress",
     "nosuch"}

LookupNames == {"db", "web"}

Repositories == {"", "/repo"}

NoCall ==
    [op |-> "none", relation |-> "", interface |-> "", opts |-> 0,
     passed |-> <<>>, redeclared |-> FALSE, before |-> <<>>, hooks |-> <<>>,
     template |-> "", subordinate |-> FALSE,
     ref |-> "", with_cache |-> FALSE, model |-> 0,
     fs |-> <<>>, objs |-> <<>>, cache |-> <<>>, lookups |-> <<>>,
     doc |-> <<>>]

\* a metadata document with its declarations by value
Document(md, h) ==
    [k \in DOMAIN md |->
        IF k \in RelTypes THEN [n \in DOMAIN md[k] |-> h[md[k][n]]] ELSE md[k]]

World == [fs |-> fs, heap |-> heap, metadata |-> metadata, hook |-> hook,
          charm |-> charm, template |-> "", err |-> None]

RWorld == [fs |-> fs, objs |-> objs, lookups |-> lookups, env |-> env,
           cache |-> cache, err |-> None, ret |-> 0]

NoBuilder ==
    /\ heap = CallerDicts
    /\ pc = "new"
    /\ metadata = <<>>
    /\ hook = None
    /\ charm = None
    /\ ndecl = 0

NoModels ==
    /\ objs = <<>>
    /\ cache = <<>>
    /\ lookups = <<>>
    /\ result = NoResult
    /\ ncall = 0
    /\ ndel = 0

Init ==
    /\ fs = InitFS
    /\ NoBuilder
    /\ NoModels
    /\ env = ""
    /\ error = None
    /\ last = NoCall

InitResolve ==
    /\ fs = CharmFS
    /\ NoBuilder
    /\ NoModels
    /\ env \in Repositories
    /\ error = None
    /\ last = NoCall

Adopt(w) ==
    /\ fs' = w.fs
    /\ heap' = w.heap
    /\ metadata' = w.metadata
    /\ hook' = w.hook
    /\ charm' = w.charm
    /\ error' = w.err

\* Builder(name, template, subordinate, hook)
Create ==
    /\ pc = "new"
    /\ \E name \in CharmNames, template \in Templates,
          subordinate \in BOOLEAN, hk \in HookNames :
          LET w == Builder_init(World, name, template, subordinate, hk)
          IN  /\ Adopt(w)
              /\ pc' = IF w.err = None THEN "ready" ELSE "failed"
              /\ last' = [NoCall EXCEPT !.op = "create", !.template = template,
                                        !.subordinate = subordinate]
    /\ UNCHANGED <<ndecl, resolve_vars>>

\* what a declaration starts from
Call(op, rel_type, relation, interface, opts) ==
    [NoCall EXCEPT
        !.op = op, !.relation = relation, !.interface = interface, !.opts = opts,
        !.passed = IF opts = 0 THEN <<>> ELSE heap[opts],
        !.redeclared = rel_type \in DOMAIN metadata
                       /\ relation \in DOMAIN metadata[rel_type],
        !.before = IF rel_type \in DOMAIN metadata
                      /\ relation \in DOMAIN metadata[rel_type]
                   THEN heap[metadata[rel_type][relation]] ELSE <<>>,
        !.hooks = fs[charm].hooks,
        !.doc = Document(metadata, heap)]

Require ==
    /\ pc = "ready" /\ ndecl < MaxDecl
    /\ \E relation \in Relations, interface \in Interfaces,
          opts \in 0..Len(CallerDicts) :
          /\ Adopt(require(World, relation, interface, opts))
          /\ last' = Call("require", "requires", relation, interface, opts)
    /\ ndecl' = ndecl + 1
    /\ UNCHANGED <<pc, resolve_vars>>

Provide ==
    /\ pc = "ready" /\ ndecl < MaxDecl
    /\ \E relation \in Relations, interface \in Interfaces,
          opts \in 0..Len(CallerDicts) :
          /\ Adopt(provide(World, relation, interface, opts))
          /\ last' = Call("provide", "provides", relation, interface, opts)
    /\ ndecl' = ndecl + 1
    /\ UNCHANGED <<pc, resolve_vars>>

Peer ==
    /\ pc = "ready" /\ ndecl < MaxDecl
    /\ \E relation \in Relations, interface \in Interfaces,
          opts \in 0..Len(CallerDicts) :
          /\ Adopt(peer(World, relation, interface, opts))
          /\ last' = Call("peer", "peers", relation, interface, opts)
    /\ ndecl' = ndecl + 1
    /\ UNCHANGED <<pc, resolve_vars>>

Next == Create \/ Require \/ Provide \/ Peer

Spec == Init /\ [][Next]_vars

----------------------------------------------------------------------------
(* Resolution and lookup, as the caller's calls *)

AdoptR(rw) ==
    /\ fs' = rw.fs
    /\ objs' = rw.objs
    /\ lookups' = rw.lookups
    /\ error' = rw.err

Before(op, ref) ==
    [NoCall EXCEPT !.op = op, !.ref = ref, !.fs = fs, !.objs = objs,
                   !.cache = cache, !.lookups = lookups]

\* c = get_charm(ref); the caller may keep c in its cache
GetCharm ==
    /\ ncall < MaxCall
    /\ \E ref \in Refs, keep \in BOOLEAN :
          LET rw == get_charm(RWorld, ref)
          IN  /\ AdoptR(rw)
              /\ cache' = IF keep /\ rw.err = None THEN set_item(cache, ref, rw.ret)
                          ELSE cache
              /\ last' = [Before("get_charm", ref) EXCEPT !.model = rw.ret]
    /\ ncall' = ncall + 1
    /\ UNCHANGED <<env, result, ndel, builder_vars>>

\* get_relation(ref, relation) or get_relation(ref, relation, cache)
GetRelation ==
    /\ ncall < MaxCall
    /\ \E ref \in Refs, relation \in LookupNames, with_cache \in BOOLEAN :
          LET rw == get_model(RWorld, ref, with_cache)
          IN  /\ fs' = rw.fs
              /\ cache' = rw.cache
              /\ objs' = rw.objs
              /\ lookups' = rw.lookups
              /\ last' = [Before("get_relation", ref) EXCEPT
                             !.relation = relation, !.with_cache = with_cache,
                             !.model = rw.ret]
              /\ IF rw.err # None
                 THEN error' = rw.err /\ result' = NoResult
                 ELSE \E out \in find_relation(rw.objs[rw.ret].attrs["relations"],
                                               relation) :
                         error' = out.err /\ result' = out.result
    /\ ncall' = ncall + 1
    /\ UNCHANGED <<env, ndel, builder_vars>>

\* a model's __del__ runs: called by hand, or when the model is collected
Del ==
    /\ ndel < MaxDel
    /\ \E i \in 1..Len(objs) :
          /\ objs[i].cls = "LocalCharm"
          /\ AdoptR(LocalCharm_del(RWorld, i))
          /\ last' = [Before("del", "") EXCEPT !.model = i]
    /\ ndel' = ndel + 1
    /\ UNCHANGED <<env, cache, result, ncall, builder_vars>>

NextResolve == GetCharm \/ GetRelation \/ Del

SpecResolve == InitResolve /\ [][NextResolve]_vars

----------------------------------------------------------------------------
(* Properties of the Builder, checked under Spec *)

DeclOps == {"require", "provide", "peer"}

TableOf(op) ==
    CASE op = "require" -> "requires"
      [] op = "provide" -> "provides"
      [] op = "peer"    -> "peers"

\* the declaration the last call made, as the metadata document now holds it
Declared == heap[metadata[TableOf(last.op)][last.relation]]

HooksNow == fs[charm].hooks

FourHooks(relation) == {hook_file(relation, Events[i]) : i \in 1..Len(Events)}

\* C1: right after require / provide / peer (name, interface, options), the
\* table of that operation (requires / provides / peers) holds an entry for
\* name whose interface is the given one and which has every other key of the
\* passed options with its value, whatever was declared before and whether the
\* options were absent, empty or not.
C1_DeclarationRecorded ==
    last.op \in DeclOps =>
        /\ TableOf(last.op) \in DOMAIN metadata
        /\ last.relation \in DOMAIN metadata[TableOf(last.op)]
        /\ "interface" \in DOMAIN Declared
        /\ Declared["interface"] = last.interface
        /\ \A k \in DOMAIN last.passed \ {"interface"} :
              k \in DOMAIN Declared /\ Declared[k] = last.passed[k]

\* a peer declaration with options of its own, after an earlier declaration
C1_Witness ==
    /\ last.op = "peer"
    /\ ndecl > 1
    /\ DOMAIN last.passed \ {"interface"} # {}
    /\ error = None

\* C2: declaring a name that its table already holds leaves the entry equal
\* to the second call's options with the second call's interface: no key of
\* the first declaration survives unless the second passes it.
C2_LastWriteWins ==
    (last.op \in DeclOps /\ last.redeclared) =>
        Declared = set_item(last.passed, "interface", last.interface)

\* the first declaration had a key the second does not pass, and another
\* interface
C2_Witness ==
    /\ last.op \in DeclOps
    /\ last.redeclared
    /\ DOMAIN last.before \ (DOMAIN last.passed \cup {"interface"}) # {}
    /\ last.before["interface"] # last.interface

JujuInfo == [interface |-> "juju-info", scope |-> "container"]

Created == last.op = "create" /\ pc = "ready"

\* what both forms of C4 say of the metadata and the checkpoint log
C4_Metadata ==
    IF last.subordinate
    THEN /\ "requires" \in DOMAIN metadata
         /\ DOMAIN metadata["requires"] = {"juju-info"}
         /\ heap[metadata["requires"]["juju-info"]] = JujuInfo
         /\ DOMAIN metadata \cap {"provides", "peers"} = {}
         /\ safe_load(fs[charm].files["metadata.yaml"])["requires"]
               = [n \in {"juju-info"} |-> JujuInfo]
         /\ fs[charm].bzr.log = <<"Writing Metadata">>
    ELSE DOMAIN metadata \cap RelTypes = {}

\* C4 as claimed: a subordinate Builder comes with the juju-info requirement,
\* its four hook links and one "Writing Metadata" checkpoint; a Builder that
\* is not subordinate comes with no relation table.
C4_SubordinateJujuInfo ==
    Created =>
        /\ C4_Metadata
        /\ last.subordinate =>
              \A f \in FourHooks("juju-info") :
                 f \in DOMAIN HooksNow /\ HooksNow[f] = SymLink(hook)

\* C4 as amended: of the four juju-info hook files, those the template did
\* not bring are links to the hook file and those it brought are the
\* template's, when the hook filename is not empty; when it is empty hooks/
\* is the template's.
C4_SubordinateJujuInfoHooks ==
    Created =>
        /\ C4_Metadata
        /\ last.subordinate =>
              \A f \in FourHooks("juju-info") :
                 IF hook = "" THEN f \in DOMAIN HooksNow <=> f \in DOMAIN fs[last.template].hooks
                 ELSE /\ f \in DOMAIN HooksNow
                      /\ IF f \in DOMAIN fs[last.template].hooks
                         THEN HooksNow[f].kind = "file"
                         ELSE HooksNow[f] = SymLink(hook)

\* a subordinate Builder with a hook file, made from the plain template
C4_Witness ==
    /\ Created
    /\ last.subordinate
    /\ hook # ""
    /\ \A f \in FourHooks("juju-info") : f \notin DOMAIN fs[last.template].hooks

\* C10: Builder(...) on a template path that does not exist raises IOError
\* and leaves nothing: the filesystem is as it was (no temporary directory,
\* no working tree, no checkpoint log) and nothing was declared.
C10_MissingTemplate ==
    (last.op = "create" /\ last.template \notin DOMAIN InitFS) =>
        /\ pc = "failed"
        /\ error = "IOError"
        /\ fs = InitFS
        /\ charm = None
        /\ DOMAIN metadata \cap RelTypes = {}
        /\ heap = CallerDicts

\* a subordinate Builder asked for on the missing template
C10_Witness ==
    /\ last.op = "create"
    /\ last.template = "/tpl/missing"
    /\ last.subordinate
    /\ pc = "failed"

----------------------------------------------------------------------------
(* Properties of resolution and lookup, checked under SpecResolve *)

\* the directory each local reference of Refs names, given JUJU_REPOSITORY
LocalDir(ref) ==
    CASE ref = "local:db"        -> IF env = "" THEN "/work/db" ELSE "/repo/db"
      [] ref = "local:nometa"    -> IF env = "" THEN "/work/nometa" ELSE "/repo/nometa"
      [] ref = "/charms/tracked" -> "/charms/tracked"
      [] ref = "/charms/nometa"  -> "/charms/nometa"
      [] ref = "/charms/built"   -> "/charms/built"
      [] ref = "/charms/attrs"   -> "/charms/attrs"
      [] ref = "~/plain"         -> "/home/u/plain"

LocalRefs ==
    {"local:db", "local:nometa", "/charms/tracked", "/charms/nometa", "/charms/built",
     "/charms/attrs", "~/plain"}

\* the references of Refs that named an existing path when the last call began
PathRefs == {r \in Refs : abspath(expanduser(r)) \in DOMAIN last.fs}

HasDocument(fsys, dir) == dir \in DOMAIN fsys /\ "metadata.yaml" \in DOMAIN fsys[dir].files

\* the model the last call made, if it made one
Made == Len(objs) = Len(last.objs) + 1
NewModel == objs[Len(objs)]

\* C5: get_relation on a model has three outcomes: it raises when the model's
\* relations hold no table; it returns (None, None), raising nothing, when
\* there are tables (empty ones too) and none holds the name; when a table
\* holds the name it returns that table's name and the interface declared
\* there.
C5_FindRelationOutcomes ==
    (last.op = "get_relation" /\ last.model # 0) =>
        LET relations == objs[last.model].attrs["relations"]
            holding == {t \in DOMAIN relations : last.relation \in DOMAIN relations[t]}
        IN  IF DOMAIN relations = {}
            THEN error = "No relations for charm" /\ result = NoResult
            ELSE IF holding = {}
            THEN error = None /\ result = <<None, None>>
            ELSE /\ error = None
                 /\ Len(result) = 2
                 /\ result[1] \in holding
                 /\ result[2] = relations[result[1]][last.relation]["interface"]

\* a lookup in a model whose only table is empty
C5_Witness ==
    /\ last.op = "get_relation"
    /\ last.model # 0
    /\ LET relations == objs[last.model].attrs["relations"]
       IN  DOMAIN relations # {} /\ \A t \in DOMAIN relations : DOMAIN relations[t] = {}
    /\ result = <<None, None>>

\* C6: resolving a local path that has a metadata document changes nothing
\* that was there.  If the directory is not checkpoint-tracked the model's
\* source location is a copy of it in a new directory under /tmp, tracked,
\* with the one checkpoint "Copied from <the directory>"; if it is tracked no
\* copy is made and the source location is the directory itself.
C6_StagedCopy ==
    (/\ last.op = "get_charm"
     /\ last.ref \in LocalRefs
     /\ HasDocument(last.fs, LocalDir(last.ref))) =>
        LET dir == LocalDir(last.ref)
            loc == NewModel.attrs["code_source"].location
        IN  /\ error = None
            /\ Made
            /\ NewModel.cls = "LocalCharm"
            /\ \A p \in DOMAIN last.fs : p \in DOMAIN fs /\ fs[p] = last.fs[p]
            /\ IF last.fs[dir].bzr.init
               THEN /\ loc = dir
                    /\ fs = last.fs
                    /\ NewModel.staging = None
               ELSE /\ loc \notin DOMAIN last.fs
                    /\ startswith(loc, "/tmp/")
                    /\ DOMAIN fs \ DOMAIN last.fs = {loc, NewModel.staging}
                    /\ loc = path_join(NewModel.staging, basename(dir))
                    /\ fs[loc].files = last.fs[dir].files
                    /\ fs[loc].hooks = last.fs[dir].hooks
                    /\ fs[loc].bzr.init
                    /\ fs[loc].bzr.log = <<"Copied from " \o dir>>

\* an untracked directory resolved while an earlier staged copy is around
C6_Witness ==
    /\ last.op = "get_charm"
    /\ last.ref = "~/plain"
    /\ Made
    /\ NewModel.staging # None
    /\ DOMAIN last.fs # DOMAIN CharmFS

\* C7: resolving a local path, given as such or through "local:", whose
\* directory has no metadata document raises "Charm not found" and does
\* nothing else: no copy, no checkpoint, no model, no registry lookup.
C7_NoDocument ==
    (/\ last.op = "get_charm"
     /\ last.ref \in LocalRefs
     /\ startswith(last.ref, "local:") \/ last.ref \in PathRefs
     /\ ~HasDocument(last.fs, LocalDir(last.ref))) =>
        /\ error = "Charm not found"
        /\ fs = last.fs
        /\ objs = last.objs
        /\ lookups = last.lookups

\* the directory without a document, named through "local:"
C7_Witness ==
    /\ last.op = "get_charm"
    /\ last.ref = "local:nometa"
    /\ env = "/repo"
    /\ error = "Charm not found"

\* C8: get_charm takes the first rule that applies: "cs:" -> the registry;
\* "lp:" -> a LaunchpadCharm of the reference; "local:" -> a LocalCharm of
\* the path under JUJU_REPOSITORY; an existing path -> a LocalCharm of it;
\* anything else -> the registry with the reference as it is.  A prefixed
\* reference is not taken as a path even where such a path exists, and the
\* last rule raises nothing of its own.
C8_ResolutionOrder ==
    last.op = "get_charm" =>
        LET ref == last.ref
            asked == lookups = Append(last.lookups, ref)
            local == /\ lookups = last.lookups
                     /\ \/ error = "Charm not found" /\ ~Made
                        \/ /\ error = None /\ Made /\ NewModel.cls = "LocalCharm"
                           /\ LET loc == NewModel.attrs["code_source"].location
                              IN  IF NewModel.staging # None
                                  THEN fs[loc].bzr.log = <<"Copied from " \o LocalDir(ref)>>
                                  ELSE loc = LocalDir(ref)
        IN  IF startswith(ref, "cs:")
            THEN asked /\ fs = last.fs /\ (Made => NewModel.cls = "Charm")
            ELSE IF startswith(ref, "lp:")
            THEN /\ lookups = last.lookups /\ fs = last.fs
                 /\ Made /\ NewModel.cls = "LaunchpadCharm"
                 /\ NewModel.attrs["code_source"].location = ref
            ELSE IF startswith(ref, "local:") THEN local
            ELSE IF ref \in PathRefs THEN local
            ELSE /\ asked /\ fs = last.fs
                 /\ (Made => NewModel.cls = "Charm")
                 /\ error \in {None, "CharmNotFound"}

\* a "lp:" reference resolved where a directory of that very name exists
C8_Witness ==
    /\ last.op = "get_charm"
    /\ last.ref = "lp:here"
    /\ abspath(last.ref) \in DOMAIN fs
    /\ Made
    /\ NewModel.cls = "LaunchpadCharm"

\* C9 as claimed: __del__ of a LocalCharm removes the staging copy the model
\* made, and raises nothing, also when it has run before or the copy is gone.
C9_CleanupIdempotent ==
    last.op = "del" =>
        /\ error = None
        /\ "temp_dir" \in DOMAIN objs[last.model].attrs =>
              objs[last.model].attrs["temp_dir"] \notin DOMAIN fs

\* C11 as claimed: the relations of a LocalCharm or LaunchpadCharm hold each
\* of the tables provides, requires and peers that the metadata document
\* has, with the document's contents, and no other; so a name declared only
\* under peers in the document is looked up as ("peers", its interface).
C11_RelationsHoldEveryTable ==
    /\ (/\ last.op = "get_charm"
        /\ Made
        /\ NewModel.cls \in {"LocalCharm", "LaunchpadCharm"}) =>
           LET raw == NewModel.attrs["_raw"]
               relations == NewModel.attrs["relations"]
           IN  /\ DOMAIN relations = DOMAIN raw \cap RelTypes
               /\ \A t \in DOMAIN relations : relations[t] = raw[t]
    /\ (/\ last.op = "get_relation"
        /\ last.model # 0
        /\ objs[last.model].cls \in {"LocalCharm", "LaunchpadCharm"}) =>
           LET raw == objs[last.model].attrs["_raw"]
               holding == {t \in DOMAIN raw \cap RelTypes :
                              last.relation \in DOMAIN raw[t]}
           IN  holding = {"peers"} =>
                  /\ error = None
                  /\ result = <<"peers", raw["peers"][last.relation]["interface"]>>

\* the last call was get_charm of a reference with none of the prefixes that
\* named no existing path
Unrecognised ==
    /\ last.op = "get_charm"
    /\ ~startswith(last.ref, "cs:")
    /\ ~startswith(last.ref, "lp:")
    /\ ~startswith(last.ref, "local:")
    /\ abspath(expanduser(last.ref)) \notin DOMAIN last.fs

\* C12 as claimed: get_charm of a reference that has none of the prefixes
\* and names no existing path fails with a ResolutionError.
C12_ResolutionError == Unrecognised => error = "ResolutionError"

\* C12: get_charm of a reference that has none of the prefixes and names no
\* existing path raises nothing of its own: it hands the reference as it is
\* to the registry, once, and touches no file.  The outcome is the
\* registry's: a Charm if it knows the reference, its failure if not.
C12_RegistryFallback ==
    Unrecognised =>
        /\ lookups = Append(last.lookups, last.ref)
        /\ fs = last.fs
        /\ IF last.ref \in DOMAIN Registry
           THEN error = None /\ Made /\ NewModel.cls = "Charm"
           ELSE error = "CharmNotFound" /\ ~Made

\* a reference the registry does not know either, after an earlier lookup
C12_Witness ==
    /\ Unrecognised
    /\ last.ref = "nosuch"
    /\ error = "CharmNotFound"
    /\ Len(lookups) = 2

----------------------------------------------------------------------------
(* Persistence of the Builder, checked under Spec *)

\* the declarations made so far, the juju-info one of a subordinate included
NDeclared == ndecl + (IF metadata["subordinate"] THEN 1 ELSE 0)

\* the files of the working tree as the checkpoint log names them
TreeFiles(dir) ==
    DOMAIN dir.files \cup {path_join("hooks", f) : f \in DOMAIN dir.hooks}

\* C13: each declaration ends by updating the table, wiring the hooks,
\* writing the whole document over metadata.yaml, adding everything and
\* committing once with "Writing Metadata".  So after k declarations the
\* log holds k commits, all "Writing Metadata"; metadata.yaml decodes to the
\* document in memory; and the last commit holds metadata.yaml and the hook
\* links as they now are.
C13_PersistedInOrder ==
    pc = "ready" =>
        LET tree == fs[charm]
        IN  /\ error = None
            /\ tree.bzr.log = [i \in 1..NDeclared |-> "Writing Metadata"]
            /\ NDeclared >= 1 =>
                  /\ "metadata.yaml" \in DOMAIN tree.files
                  /\ safe_load(tree.files["metadata.yaml"]) = Document(metadata, heap)
                  /\ tree.bzr.added = TreeFiles(tree)
                  /\ tree.bzr.head = tracked_files(tree)

\* a declaration that left the document as it was, committed all the same
C13_Witness ==
    /\ pc = "ready"
    /\ last.op \in DeclOps
    /\ last.doc = Document(metadata, heap)
    /\ fs[charm].bzr.log = <<"Writing Metadata", "Writing Metadata">>

\* the relation tables the metadata document has
Tables == DOMAIN metadata \cap RelTypes

\* C14: whatever require, provide and peer calls were made, and after the
\* juju-info declaration of a subordinate, every declaration in every
\* relation table of the metadata document has an interface field.
C14_InterfaceEverywhere ==
    pc = "ready" =>
        \A t \in Tables : \A n \in DOMAIN metadata[t] :
            "interface" \in DOMAIN heap[metadata[t][n]]

\* a subordinate with declarations in two tables, the last one made with a
\* dict of the caller's that had no interface
C14_Witness ==
    /\ pc = "ready"
    /\ metadata["subordinate"]
    /\ Cardinality(Tables) >= 2
    /\ last.op \in DeclOps
    /\ last.opts = 2
    /\ "interface" \notin DOMAIN last.passed

\* the names a relation table of a document holds; none if it has no such table
NamesIn(doc, t) == IF t \in DOMAIN doc THEN DOMAIN doc[t] ELSE {}

\* C15 as claimed: whatever require, provide and peer calls were made, a
\* relation name is in at most one of the tables provides, requires, peers.
C15_OneTablePerName ==
    pc = "ready" =>
        \A n \in Relations \cup {"juju-info"} :
            Cardinality({t \in RelTypes : n \in NamesIn(metadata, t)}) <= 1

\* C15: a declaration puts its name into its own table and leaves the names
\* of every table, the other two included, as they were: the tables hold
\* the names declared into them, and a name declared into two tables is in
\* both.
C15_TablesHoldWhatWasDeclared ==
    (pc = "ready" /\ last.op \in DeclOps) =>
        \A t \in RelTypes :
            NamesIn(metadata, t) =
                NamesIn(last.doc, t)
                \cup (IF t = TableOf(last.op) THEN {last.relation} ELSE {})

\* a name declared into a second table
C15_Witness ==
    /\ pc = "ready"
    /\ last.op \in DeclOps
    /\ \E t \in RelTypes \ {TableOf(last.op)} : last.relation \in NamesIn(last.doc, t)
    /\ Cardinality({t \in RelTypes : last.relation \in NamesIn(metadata, t)}) = 2

\* C16: get_relation given a cache that holds the reference takes the model
\* from it and resolves nothing: no registry lookup, no copy, no checkpoint,
\* no new model.  Given no cache, an empty one, or one without the
\* reference, it does what one get_charm of the reference does, no more.
\* Either way the cache is afterwards what it was.
C16_CacheReadOnly ==
    last.op = "get_relation" =>
        /\ cache = last.cache
        /\ IF last.with_cache /\ last.ref \in DOMAIN last.cache
           THEN /\ last.model = last.cache[last.ref]
                /\ fs = last.fs
                /\ objs = last.objs
                /\ lookups = last.lookups
           ELSE LET once == get_charm([fs |-> last.fs, objs |-> last.objs,
                                       lookups |-> last.lookups, env |-> env,
                                       cache |-> last.cache, err |-> None,
                                       ret |-> 0],
                                      last.ref)
                IN  /\ last.model = once.ret
                    /\ fs = once.fs
                    /\ objs = once.objs
                    /\ lookups = once.lookups
                    /\ Len(objs) <= Len(last.objs) + 1
                    /\ Len(lookups) <= Len(last.lookups) + 1
                    /\ once.err # None => error = once.err

\* a lookup answered from the cache for a directory that resolving would
\* have copied
C16_Witness ==
    /\ last.op = "get_relation"
    /\ last.with_cache
    /\ last.ref = "~/plain"
    /\ last.ref \in DOMAIN last.cache
    /\ result = <<None, None>>

\* a lookup given a cache that does not hold the reference
C16_WitnessMiss ==
    /\ last.op = "get_relation"
    /\ last.with_cache
    /\ DOMAIN last.cache # {}
    /\ last.ref \notin DOMAIN last.cache
    /\ Made

\* C17 as claimed: a declaration of (table, name) changes metadata[table][name]
\* and nothing else of the metadata document: every other entry of every
\* relation table and every top-level field is afterwards what it was, also
\* when the caller passes one options dict to more than one declaration.
C17_OnlyDeclaredEntryChanges ==
    (pc = "ready" /\ last.op \in DeclOps) =>
        LET now == Document(metadata, heap)
        IN  \A k \in DOMAIN last.doc :
                /\ k \in DOMAIN now
                /\ IF k \in RelTypes
                   THEN \A n \in DOMAIN last.doc[k] :
                           \/ k = TableOf(last.op) /\ n = last.relation
                           \/ n \in DOMAIN now[k] /\ now[k][n] = last.doc[k][n]
                   ELSE now[k] = last.doc[k]

\* C18 as claimed: __del__ of a LocalCharm removes the staging directory its
\* construction made and what is under it, nothing else, and nothing at all
\* when no copy was made, whatever top-level keys the metadata document has.
C18_RemovesOwnStagingOnly ==
    last.op = "del" =>
        LET own == objs[last.model].staging
            removed == DOMAIN last.fs \ DOMAIN fs
        IN  IF own = None THEN removed = {}
            ELSE \A p \in removed : p = own \/ startswith(p, own \o "/")

\* metadata.yaml of the working tree decodes to the document in memory
FileIsDocument ==
    /\ "metadata.yaml" \in DOMAIN fs[charm].files
    /\ safe_load(fs[charm].files["metadata.yaml"]) = Document(metadata, heap)

====
